---- MODULE Spec2Model ----
(***************************************************************************)
(* Render loop of shadertoy_prototype (src/src/main.rs).                   *)
(*                                                                         *)
(* Three threads of control share four statics: the per-frame closure      *)
(* update_and_draw, one external caller of the wasm_bindgen control        *)
(* functions, and the canvas' context lost/restored listeners.  The frame  *)
(* closure is split at its accesses to the statics: the transition match   *)
(* with the flag test (lines 213-234), get_shader with compile_and_link    *)
(* (235-255), the flag store (256) and the try_lock snapshot with the      *)
(* rest of the frame (258-316).  A control call is split where it takes    *)
(* the mutex, where it writes and releases it, and where it stores the     *)
(* flag.                                                                   *)
(*                                                                         *)
(* Time is in whole seconds, one tick per frame.  The resolution and date  *)
(* uniforms (lines 269-284, 306-313) read only the host and are written    *)
(* in the same step as the draw call; their values are not kept.           *)
(***************************************************************************)
EXTENDS Naturals, Integers, Sequences, FiniteSets, TLC

(* ------------------------------ bounds -------------------------------- *)

\* the scheduler invokes the frame callback at most MaxTime times
MaxTime == 3

(* --------------------------- values and types -------------------------- *)

\* Option<T>
None == <<>>
Some(x) == <<x>>

\* Option::or, as used on lines 60-61
OptionOr(a, b) == IF a # None THEN a ELSE b

\* Option::unwrap_or, as used on lines 189, 236, 263
UnwrapOr(opt, default) == IF opt # None THEN opt[1] ELSE default

MouseA == [x |-> 1, y |-> 2, down_x |-> 0, down_y |-> 0]
MouseB == [x |-> 3, y |-> 4, down_x |-> 1, down_y |-> 2]
MouseUniform == {MouseA}
MouseUniformWide == {MouseA, MouseB}

PlayerStateOver(M) == [mouse : {None} \cup {Some(m) : m \in M},
                        paused : {None, Some(TRUE), Some(FALSE)}]
PlayerState == PlayerStateOver(MouseUniformWide)

\* PlayerState::default()
DefaultPlayerState == [mouse |-> None, paused |-> None]

\* JsValues handed to update_player_state: an object with the optional
\* fields of PlayerState, or something that is not one
JsObject(state) == <<"object", state>>
JsJunk == <<"junk">>

\* from_value that reads anything that is not a PlayerState as the default one
from_value_lenient(js) == IF js[1] = "object" THEN Some(js[2]) ELSE Some(DefaultPlayerState)

\* serde_wasm_bindgen::from_value::<PlayerState>, line 56: Some for Ok, None for Err
from_value(js) == IF js[1] = "object" THEN Some(js[2]) ELSE None

\* OnceLock: Unset until set, then Some(content of the mutex)
Unset == <<>>

\* Mutex that nobody holds
Free == "free"
Caller == "caller"

\* user shader texts: one that compiles and one that does not
ShaderTexts == {"good", "bad"}
default_frag_shader_src == "default"

prepare_shader(shadertoy_code) == <<"preamble", shadertoy_code, "main">>

\* whether the GLSL compiler accepts a source
ValidGLSL(src) == src[1] = "preamble" /\ src[3] = "main" /\ src[2] \in {"default", "good"}

\* ProgramFromSources::compile_and_link: TRUE for Ok, FALSE for Err.
\* A lost context creates no shader objects, so every build fails there.
compile_and_link(fragment_src, lost) == ValidGLSL(fragment_src) /\ ~lost

UniformNames == {"iResolution", "iTime", "iTimeDelta", "iFrame", "iFrameRate", "iMouse", "iDate"}

\* t /= 1000f64
Seconds(ms) == ms \div 1000

VARIABLES
    PLAYER_STATE_STORAGE,     \* Unset or the PlayerState in the mutex
    playerLock,               \* holder of the player-state mutex
    FRAGMENT_SHADER_STORAGE,  \* Unset or the String in the mutex
    shaderLock,               \* holder of the shader mutex
    RELOAD_FRAGMENT_SHADER,
    LOST_WEBGL2_CONTEXT,
    program,                  \* the closure's program: [id, frag]
    uniform_loc,              \* the seven *_loc: name -> id of the program they were resolved on
    last_time,
    frame,
    reload_webgl2_context,
    player_state,             \* the closure's cached PlayerState
    fragment_shader,          \* source handed to the latest compile_and_link
    framePc,                  \* position of the frame closure
    frameOut,                 \* what the current / latest frame invocation did
    gl_created,               \* ids of programs the loop created
    gl_deleted,               \* ids passed to delete_program
    gl_current,               \* id passed to the latest use_program
    now,                      \* number of frame invocations so far = time in seconds
    loss_pending,             \* the context was lost and no forced rebuild has followed yet
    callPc,                   \* position of the external caller
    callArg,                  \* argument of the call in progress
    callOut                   \* what the current / latest control call did

vars == <<PLAYER_STATE_STORAGE, playerLock, FRAGMENT_SHADER_STORAGE, shaderLock,
          RELOAD_FRAGMENT_SHADER, LOST_WEBGL2_CONTEXT, program, uniform_loc,
          last_time, frame, reload_webgl2_context, player_state, fragment_shader,
          framePc, frameOut, gl_created, gl_deleted, gl_current, now, loss_pending,
          callPc, callArg, callOut>>

statics == <<PLAYER_STATE_STORAGE, playerLock, FRAGMENT_SHADER_STORAGE, shaderLock,
             RELOAD_FRAGMENT_SHADER>>
playerCell == <<PLAYER_STATE_STORAGE, playerLock>>
shaderCell == <<FRAGMENT_SHADER_STORAGE, shaderLock>>
loopVars == <<program, uniform_loc, last_time, frame, reload_webgl2_context,
              player_state, fragment_shader, framePc, frameOut,
              gl_created, gl_deleted, gl_current, now, loss_pending>>
progVars == <<program, uniform_loc, gl_created, gl_current>>
clockVars == <<last_time, frame>>
callVars == <<callPc, callArg, callOut>>

(* ------------------------------ the frame ------------------------------ *)

\* the time argument of the current invocation, in seconds
T == Seconds(now * 1000)

\* the paused field of the player-state cell is Some(true)
CellPaused == PLAYER_STATE_STORAGE # Unset /\ PLAYER_STATE_STORAGE[1].paused = Some(TRUE)

\* a frame invocation that has done nothing yet.  ret is the closure's return
\* value once it returned, lost the flag as loaded on line 214, pausedAtEntry
\* (while the invocation runs) whether the cell was paused when it began, and sinceRebuild
\* says that a program was rebuilt and no frame has drawn since
BlankFrame(prev) ==
    [ret |-> None, lost |-> FALSE, pausedAtEntry |-> CellPaused, forced |-> FALSE, attempts |-> 0, errors |-> 0,
     rebuilt |-> FALSE, sinceRebuild |-> prev.sinceRebuild /\ ~prev.drew,
     locked |-> FALSE, drew |-> FALSE,
     prog |-> 0, locs |-> {}, time_delta |-> 0, frame |-> 0,
     frame_rate |-> None, mouse |-> None]

\* Transition without the (false, true) arm: the restore is not noticed
TransitionNoForce(lost, pending) ==
    IF lost /\ ~pending THEN "free"
    ELSE IF lost /\ pending THEN "wait"
    ELSE "run"

\* the match on (LOST_WEBGL2_CONTEXT, reload_webgl2_context), lines 213-232
Transition(lost, pending) ==
    IF lost /\ ~pending THEN "free"
    ELSE IF lost /\ pending THEN "wait"
    ELSE IF ~lost /\ pending THEN "force"
    ELSE "run"

\* ShouldReload that tries again in every frame
ShouldReloadRetry(force_reload_shader, flag) == TRUE

\* line 234
ShouldReload(force_reload_shader, flag) == force_reload_shader \/ flag

\* AfterTransition with the flag store moved out of the reload block
AfterTransitionAlwaysClear(reload) == IF reload THEN "get_shader" ELSE "clear"

\* where the closure goes after the match: into the reload block or past it
AfterTransition(reload) == IF reload THEN "get_shader" ELSE "snapshot"

\* Return that stops the loop once the context is lost
ReturnUnlessLost(arm) == arm \notin {"free", "wait"}

\* the closure's return value on lines 221, 224, 266 and 316
Return(arm) == TRUE

\* lines 217-222: first frame that sees the context lost
FrameLostDetected ==
    /\ framePc = "idle"
    /\ now < MaxTime
    /\ Transition(LOST_WEBGL2_CONTEXT, reload_webgl2_context) = "free"
    /\ now' = now + 1
    /\ gl_deleted' = gl_deleted \cup {program.id}
    /\ reload_webgl2_context' = TRUE
    /\ frameOut' = [BlankFrame(frameOut) EXCEPT !.lost = TRUE, !.pausedAtEntry = FALSE,
                                               !.ret = Some(Return("free"))]
    /\ UNCHANGED <<statics, LOST_WEBGL2_CONTEXT, progVars, clockVars, player_state,
                   fragment_shader, framePc, loss_pending, callVars>>

\* lines 223-225: the context is still lost
FrameLostWaiting ==
    /\ framePc = "idle"
    /\ now < MaxTime
    /\ Transition(LOST_WEBGL2_CONTEXT, reload_webgl2_context) = "wait"
    /\ now' = now + 1
    /\ frameOut' = [BlankFrame(frameOut) EXCEPT !.lost = TRUE, !.pausedAtEntry = FALSE,
                                               !.ret = Some(Return("wait"))]
    /\ UNCHANGED <<statics, LOST_WEBGL2_CONTEXT, progVars, clockVars, player_state,
                   fragment_shader, framePc, reload_webgl2_context, gl_deleted,
                   loss_pending, callVars>>

\* lines 226-234: the context is there; decide whether to rebuild
FrameProceed ==
    /\ framePc = "idle"
    /\ now < MaxTime
    /\ Transition(LOST_WEBGL2_CONTEXT, reload_webgl2_context) \in {"force", "run"}
    /\ LET force_reload_shader ==
               Transition(LOST_WEBGL2_CONTEXT, reload_webgl2_context) = "force"
       IN /\ reload_webgl2_context' = FALSE
          /\ frameOut' = [BlankFrame(frameOut) EXCEPT !.forced = force_reload_shader]
          /\ framePc' = AfterTransition(ShouldReload(force_reload_shader,
                                                     RELOAD_FRAGMENT_SHADER))
          /\ loss_pending' = (loss_pending /\ ~force_reload_shader)
    /\ now' = now + 1
    /\ UNCHANGED <<statics, LOST_WEBGL2_CONTEXT, progVars, clockVars, player_state,
                   fragment_shader, gl_deleted, callVars>>

\* get_shader that never finds the slot
get_shader_unset(storage) == None

\* get_shader, lines 145-147, once the mutex is free
get_shader(storage) == IF storage = Unset THEN None ELSE Some(storage[1])

\* AdoptProgram that also takes the result of a failed build
AdoptProgramAlways(ok, new_program, old_program) == new_program

\* lines 239-255: the program the closure holds after a build
AdoptProgram(ok, new_program, old_program) == IF ok THEN new_program ELSE old_program

\* lines 235-255: read the slot, build, adopt or report
FrameGetShader ==
    /\ framePc = "get_shader"
    /\ FRAGMENT_SHADER_STORAGE # Unset => shaderLock = Free   \* Mutex::lock waits
    /\ LET src == UnwrapOr(get_shader(FRAGMENT_SHADER_STORAGE),
                           prepare_shader(default_frag_shader_src))
           ok == compile_and_link(src, LOST_WEBGL2_CONTEXT)
           new_program == [id |-> Cardinality(gl_created) + 1, frag |-> src]
       IN /\ fragment_shader' = src
          /\ program' = AdoptProgram(ok, new_program, program)
          /\ gl_created' = IF ok THEN gl_created \cup {new_program.id} ELSE gl_created
          /\ gl_current' = IF ok THEN program'.id ELSE gl_current
          /\ uniform_loc' = IF ok THEN [u \in UniformNames |-> program'.id]
                                  ELSE uniform_loc
          /\ frameOut' = [frameOut EXCEPT !.attempts = @ + 1,
                                          !.errors = IF ok THEN @ ELSE @ + 1,
                                          !.rebuilt = ok,
                                          !.sinceRebuild = @ \/ ok]
    /\ framePc' = "clear"
    /\ UNCHANGED <<statics, LOST_WEBGL2_CONTEXT, clockVars, reload_webgl2_context,
                   player_state, gl_deleted, now, loss_pending, callVars>>

\* line 256
FrameClearFlag ==
    /\ framePc = "clear"
    /\ RELOAD_FRAGMENT_SHADER' = FALSE
    /\ framePc' = "snapshot"
    /\ UNCHANGED <<playerCell, shaderCell, LOST_WEBGL2_CONTEXT, progVars, clockVars,
                   reload_webgl2_context, player_state, fragment_shader, frameOut,
                   gl_deleted, now, loss_pending, callVars>>

\* SnapshotPlayerState that forgets the cached value when try_lock fails
SnapshotOrDefault(storage, lock, cached) ==
    UnwrapOr(IF storage # Unset /\ lock = Free THEN Some(storage[1]) ELSE None,
             DefaultPlayerState)

\* lines 258-263: try_lock, clone, else keep the cached value
SnapshotPlayerState(storage, lock, cached) ==
    UnwrapOr(IF storage # Unset /\ lock = Free THEN Some(storage[1]) ELSE None, cached)

\* IsPaused without the gate: no frame is held back
IsPausedNever(ps) == FALSE

\* IsPaused testing for the wrong value
IsPausedInverted(ps) == ps.paused = Some(FALSE)

\* line 264
IsPaused(ps) == ps.paused = Some(TRUE)

\* TimeDif measured after last_time was overwritten with t
TimeDifAfterUpdate(t, last) == 0

\* lines 286-290
TimeDif(t, last) == IF last = 0 THEN 0 ELSE t - last

\* line 295: 1f32 / time_dif, as a fraction; None stands for the infinity
FrameRate(time_dif) == IF time_dif = 0 THEN None ELSE Some(<<1, time_dif>>)

\* NextFrameIndex that forgets to count
NextFrameIndexStuck(f) == f

\* line 294: frame += 1f32
NextFrameIndex(f) == f + 1

\* lines 258-267: snapshot, then nothing else because paused
FramePaused ==
    /\ framePc = "snapshot"
    /\ LET snap == SnapshotPlayerState(PLAYER_STATE_STORAGE, playerLock, player_state)
       IN /\ IsPaused(snap)
          /\ player_state' = snap
          /\ frameOut' = [frameOut EXCEPT
                             !.locked = PLAYER_STATE_STORAGE # Unset /\ playerLock = Free,
                             !.pausedAtEntry = FALSE,
                             !.ret = Some(Return("paused"))]
    /\ framePc' = "idle"
    /\ UNCHANGED <<statics, LOST_WEBGL2_CONTEXT, progVars, clockVars,
                   reload_webgl2_context, fragment_shader, gl_deleted, now,
                   loss_pending, callVars>>

\* lines 258-316: snapshot, uniform writes, clock update, draw
FrameDraw ==
    /\ framePc = "snapshot"
    /\ LET snap == SnapshotPlayerState(PLAYER_STATE_STORAGE, playerLock, player_state)
           time_dif == TimeDif(T, last_time)
       IN /\ ~IsPaused(snap)
          /\ player_state' = snap
          /\ last_time' = T
          /\ frame' = NextFrameIndex(frame)
          /\ frameOut' = [frameOut EXCEPT
                             !.locked = PLAYER_STATE_STORAGE # Unset /\ playerLock = Free,
                             !.drew = TRUE,
                             !.prog = gl_current,
                             !.locs = {uniform_loc[u] : u \in UniformNames},
                             !.time_delta = time_dif,
                             !.frame = frame,
                             !.frame_rate = FrameRate(time_dif),
                             !.mouse = snap.mouse,
                             !.pausedAtEntry = FALSE,
                             !.ret = Some(Return("drawn"))]
    /\ framePc' = "idle"
    /\ UNCHANGED <<statics, LOST_WEBGL2_CONTEXT, progVars, reload_webgl2_context,
                   fragment_shader, gl_deleted, now, loss_pending, callVars>>

Frame == \/ FrameLostDetected \/ FrameLostWaiting \/ FrameProceed
         \/ FrameGetShader \/ FrameClearFlag \/ FramePaused \/ FrameDraw

(* ------------------------- context notifications ----------------------- *)

\* lines 167-175
ContextLost ==
    /\ ~LOST_WEBGL2_CONTEXT
    /\ LOST_WEBGL2_CONTEXT' = TRUE
    /\ loss_pending' = TRUE
    /\ UNCHANGED <<statics, program, uniform_loc, last_time, frame, reload_webgl2_context,
                   player_state, fragment_shader, framePc, frameOut,
                   gl_created, gl_deleted, gl_current, now, callVars>>

\* lines 177-184
ContextRestored ==
    /\ LOST_WEBGL2_CONTEXT
    /\ LOST_WEBGL2_CONTEXT' = FALSE
    /\ UNCHANGED <<statics, loopVars, callVars>>

(* --------------------------- the control surface ----------------------- *)

\* the error reports (report_error, gl::error!) of a control call: none yet
NoReport == [errors |-> 0]

\* lines 36-37: FRAGMENT_SHADER_STORAGE.get(), and mutex.lock() when it is set
SetFragmentShaderBegin(new_shader_code) ==
    /\ callPc = "idle"
    /\ IF FRAGMENT_SHADER_STORAGE # Unset
       THEN /\ shaderLock = Free
            /\ shaderLock' = Caller
            /\ callPc' = "sfs_write"
       ELSE /\ callPc' = "sfs_init"
            /\ UNCHANGED shaderLock
    /\ callArg' = Some(new_shader_code)
    /\ callOut' = NoReport
    /\ UNCHANGED <<playerCell, FRAGMENT_SHADER_STORAGE, RELOAD_FRAGMENT_SHADER,
                   LOST_WEBGL2_CONTEXT, loopVars>>

\* line 38 and the release of the guard
SetFragmentShaderWrite ==
    /\ callPc = "sfs_write"
    /\ FRAGMENT_SHADER_STORAGE' = Some(prepare_shader(callArg[1]))
    /\ shaderLock' = Free
    /\ callPc' = "sfs_store"
    /\ UNCHANGED <<playerCell, RELOAD_FRAGMENT_SHADER, LOST_WEBGL2_CONTEXT, loopVars,
                   callArg, callOut>>

\* lines 43-49: OnceLock::set, which fails when the cell was set meanwhile
SetFragmentShaderInit ==
    /\ callPc = "sfs_init"
    /\ IF FRAGMENT_SHADER_STORAGE = Unset
       THEN /\ FRAGMENT_SHADER_STORAGE' = Some(prepare_shader(callArg[1]))
            /\ callPc' = "sfs_store"
            /\ UNCHANGED <<callArg, callOut>>
       ELSE /\ callOut' = [errors |-> 1]
            /\ callPc' = "idle"
            /\ callArg' = None
            /\ UNCHANGED FRAGMENT_SHADER_STORAGE
    /\ UNCHANGED <<playerCell, shaderLock, RELOAD_FRAGMENT_SHADER, LOST_WEBGL2_CONTEXT,
                   loopVars>>

\* line 51
SetFragmentShaderStore ==
    /\ callPc = "sfs_store"
    /\ RELOAD_FRAGMENT_SHADER' = TRUE
    /\ callPc' = "idle"
    /\ callArg' = None
    /\ UNCHANGED <<playerCell, shaderCell, LOST_WEBGL2_CONTEXT, loopVars, callOut>>

\* MergePlayerState with the operands of `or` swapped: the old value wins
MergePlayerStateKeepOld(state, old) ==
    [mouse |-> OptionOr(old.mouse, state.mouse),
     paused |-> OptionOr(old.paused, state.paused)]

\* lines 60-61
MergePlayerState(state, old) ==
    [mouse |-> OptionOr(state.mouse, old.mouse),
     paused |-> OptionOr(state.paused, old.paused)]

\* lines 56-59 and 69: parse, PLAYER_STATE_STORAGE.get(), and mutex.lock() when set
UpdatePlayerStateBegin(js) ==
    /\ callPc = "idle"
    /\ IF from_value(js) = None
       THEN /\ callOut' = [errors |-> 1]
            /\ UNCHANGED <<playerLock, callPc, callArg>>
       ELSE /\ IF PLAYER_STATE_STORAGE # Unset
               THEN /\ playerLock = Free
                    /\ playerLock' = Caller
                    /\ callPc' = "ups_merge"
               ELSE /\ callPc' = "ups_init"
                    /\ UNCHANGED playerLock
            /\ callArg' = from_value(js)
            /\ callOut' = NoReport
    /\ UNCHANGED <<PLAYER_STATE_STORAGE, shaderCell, RELOAD_FRAGMENT_SHADER,
                   LOST_WEBGL2_CONTEXT, loopVars>>

\* lines 60-61 and the release of the guard
UpdatePlayerStateMerge ==
    /\ callPc = "ups_merge"
    /\ PLAYER_STATE_STORAGE' = Some(MergePlayerState(callArg[1], PLAYER_STATE_STORAGE[1]))
    /\ playerLock' = Free
    /\ callPc' = "idle"
    /\ callArg' = None
    /\ UNCHANGED <<shaderCell, RELOAD_FRAGMENT_SHADER, LOST_WEBGL2_CONTEXT, loopVars, callOut>>

\* the cell after PLAYER_STATE_STORAGE.set(Mutex::new(value)), lines 65 and 90-95
OnceLockSet(storage, value) == IF storage = Unset THEN Some(value) ELSE storage

\* lines 65-67
UpdatePlayerStateInit ==
    /\ callPc = "ups_init"
    /\ PLAYER_STATE_STORAGE' = OnceLockSet(PLAYER_STATE_STORAGE, callArg[1])
    /\ callOut' = [errors |-> IF PLAYER_STATE_STORAGE = Unset THEN 0 ELSE 1]
    /\ callPc' = "idle"
    /\ callArg' = None
    /\ UNCHANGED <<playerLock, shaderCell, RELOAD_FRAGMENT_SHADER, LOST_WEBGL2_CONTEXT,
                   loopVars>>

\* lines 91-94
PausedOnly(value) == [mouse |-> DefaultPlayerState.mouse, paused |-> Some(value)]

\* line 86
WithPaused(old, value) == [old EXCEPT !.paused = Some(value)]

\* set_paused, lines 84-85: PLAYER_STATE_STORAGE.get(), and mutex.lock() when set
SetPausedBegin(value) ==
    /\ callPc = "idle"
    /\ IF PLAYER_STATE_STORAGE # Unset
       THEN /\ playerLock = Free
            /\ playerLock' = Caller
            /\ callPc' = "sp_write"
       ELSE /\ callPc' = "sp_init"
            /\ UNCHANGED playerLock
    /\ callArg' = Some(value)
    /\ callOut' = NoReport
    /\ UNCHANGED <<PLAYER_STATE_STORAGE, shaderCell, RELOAD_FRAGMENT_SHADER,
                   LOST_WEBGL2_CONTEXT, loopVars>>

\* line 86 and the release of the guard
SetPausedWrite ==
    /\ callPc = "sp_write"
    /\ PLAYER_STATE_STORAGE' = Some(WithPaused(PLAYER_STATE_STORAGE[1], callArg[1]))
    /\ playerLock' = Free
    /\ callPc' = "idle"
    /\ callArg' = None
    /\ UNCHANGED <<shaderCell, RELOAD_FRAGMENT_SHADER, LOST_WEBGL2_CONTEXT, loopVars, callOut>>

\* lines 90-98
SetPausedInit ==
    /\ callPc = "sp_init"
    /\ PLAYER_STATE_STORAGE' = OnceLockSet(PLAYER_STATE_STORAGE, PausedOnly(callArg[1]))
    /\ callOut' = [errors |-> IF PLAYER_STATE_STORAGE = Unset THEN 0 ELSE 1]
    /\ callPc' = "idle"
    /\ callArg' = None
    /\ UNCHANGED <<playerLock, shaderCell, RELOAD_FRAGMENT_SHADER, LOST_WEBGL2_CONTEXT,
                   loopVars>>

\* lines 73-76
play == SetPausedBegin(FALSE)

\* lines 78-81
stop == SetPausedBegin(TRUE)

set_fragment_shader == \E text \in ShaderTexts : SetFragmentShaderBegin(text)

JsValues(M) == {JsObject(state) : state \in PlayerStateOver(M)} \cup {JsJunk}

update_player_state == \E js \in JsValues(MouseUniform) : UpdatePlayerStateBegin(js)

update_player_state_wide == \E js \in JsValues(MouseUniformWide) : UpdatePlayerStateBegin(js)


(* ---------------------------- specification ---------------------------- *)

\* run(), lines 162-206, with nothing called before it
Init ==
    /\ PLAYER_STATE_STORAGE = Unset
    /\ playerLock = Free
    /\ FRAGMENT_SHADER_STORAGE = Unset
    /\ shaderLock = Free
    /\ RELOAD_FRAGMENT_SHADER = FALSE
    /\ LOST_WEBGL2_CONTEXT = FALSE
    /\ fragment_shader = UnwrapOr(get_shader(Unset), prepare_shader(default_frag_shader_src))
    /\ program = [id |-> 1, frag |-> fragment_shader]
    /\ uniform_loc = [u \in UniformNames |-> 1]
    /\ last_time = 0
    /\ frame = 0
    /\ reload_webgl2_context = FALSE
    /\ player_state = DefaultPlayerState
    /\ framePc = "idle"
    /\ frameOut = [ret |-> None, lost |-> FALSE, pausedAtEntry |-> FALSE, forced |-> FALSE, attempts |-> 0, errors |-> 0,
                   rebuilt |-> FALSE, sinceRebuild |-> FALSE,
                   locked |-> FALSE, drew |-> FALSE,
                   prog |-> 0, locs |-> {}, time_delta |-> 0, frame |-> 0,
                   frame_rate |-> None, mouse |-> None]
    /\ gl_created = {1}
    /\ gl_deleted = {}
    /\ gl_current = 1
    /\ now = 0
    /\ loss_pending = FALSE
    /\ callPc = "idle"
    /\ callArg = None
    /\ callOut = NoReport

Next ==
    \/ FrameLostDetected
    \/ FrameLostWaiting
    \/ FrameProceed
    \/ FrameGetShader
    \/ FrameClearFlag
    \/ FramePaused
    \/ FrameDraw
    \/ ContextLost
    \/ ContextRestored
    \/ set_fragment_shader
    \/ SetFragmentShaderWrite
    \/ SetFragmentShaderInit
    \/ SetFragmentShaderStore
    \/ update_player_state
    \/ UpdatePlayerStateMerge
    \/ UpdatePlayerStateInit
    \/ play
    \/ stop
    \/ SetPausedWrite
    \/ SetPausedInit

Spec == Init /\ [][Next]_vars

\* the control surface alone, with two pointer values
NextControl ==
    \/ update_player_state_wide
    \/ UpdatePlayerStateMerge
    \/ UpdatePlayerStateInit
    \/ play
    \/ stop
    \/ SetPausedWrite
    \/ SetPausedInit

SpecControl == Init /\ [][NextControl]_vars

TypeOK ==
    /\ PLAYER_STATE_STORAGE \in {Some(s) : s \in PlayerState} \cup {Unset}
    /\ player_state \in PlayerState
    /\ framePc \in {"idle", "get_shader", "clear", "snapshot"}
    /\ callPc \in {"idle", "sfs_write", "sfs_init", "sfs_store", "ups_merge", "ups_init",
                   "sp_write", "sp_init"}
    /\ now \in 0..MaxTime
    /\ last_time \in 0..MaxTime
    /\ frame \in 0..MaxTime

(* -------------------------------- claims ------------------------------- *)

\* the content get_shader().unwrap_or(...) would hand to a build
SlotContent == UnwrapOr(get_shader(FRAGMENT_SHADER_STORAGE),
                        prepare_shader(default_frag_shader_src))

\* the content of the player-state cell, the default while it is unset
CellContent == IF PLAYER_STATE_STORAGE = Unset THEN DefaultPlayerState
               ELSE PLAYER_STATE_STORAGE[1]

\* C1: a build that fails leaves the program handle, the program in use and
\* the seven uniform locations as they were before the attempt, and every
\* frame that draws writes its uniforms through locations of, and draws
\* with, the program the loop holds.
FailedCompileKeepsOldProgram ==
    [][/\ (/\ framePc = "get_shader"
           /\ framePc' = "clear"
           /\ ~compile_and_link(fragment_shader', LOST_WEBGL2_CONTEXT))
          => /\ program' = program
             /\ uniform_loc' = uniform_loc
             /\ gl_current' = gl_current
       /\ (framePc = "snapshot" /\ frameOut'.drew)
          => /\ frameOut'.prog = program.id
             /\ frameOut'.locs = {program.id}
             /\ program' = program]_vars

\* C1 witness: a frame whose flag-triggered build failed has drawn with the
\* program built at start
FailedCompileThenDrawn ==
    /\ frameOut.ret # None
    /\ ~frameOut.forced
    /\ frameOut.attempts = 1
    /\ frameOut.errors = 1
    /\ frameOut.drew
    /\ frameOut.prog = 1
    /\ program.id = 1

\* what C2 says of the frame steps, but for what the frame after the restore
\* does once it has rebuilt
DeviceLossFrames ==
    /\ (framePc = "idle" /\ now' # now /\ LOST_WEBGL2_CONTEXT)
       => /\ frameOut'.ret = Some(TRUE)
          /\ ~frameOut'.drew
          /\ frameOut'.attempts = 0
          /\ framePc' = "idle"
          /\ reload_webgl2_context'
    /\ (framePc = "idle" /\ now' # now /\ ~LOST_WEBGL2_CONTEXT)
       => /\ frameOut'.forced = reload_webgl2_context
          /\ ~reload_webgl2_context'
          /\ frameOut'.forced => framePc' = "get_shader"
    /\ (frameOut.ret = None /\ frameOut'.ret # None /\ frameOut'.forced)
       => /\ frameOut'.attempts = 1
          /\ frameOut'.ret = Some(TRUE)

\* C2 (amended): while the flag is true no frame draws or builds and each
\* returns true; the first frame after the flag is false again makes exactly
\* one forced build and draws in that frame unless its player-state snapshot
\* is paused; later frames are not forced.
DeviceLossRoundTrip ==
    [][/\ DeviceLossFrames
       /\ (frameOut.ret = None /\ frameOut'.ret # None /\ frameOut'.forced)
          => (frameOut'.drew <=> ~IsPaused(player_state'))]_vars

\* C2 as stated: the frame after the restore always draws
DeviceLossRoundTripAlwaysDraws ==
    [][/\ DeviceLossFrames
       /\ (frameOut.ret = None /\ frameOut'.ret # None /\ frameOut'.forced)
          => frameOut'.drew]_vars

\* C2 witness: the frame after a restore has rebuilt the program and drawn
RestoredFrameDrawn ==
    /\ frameOut.ret # None
    /\ frameOut.forced
    /\ frameOut.attempts = 1
    /\ frameOut.rebuilt
    /\ frameOut.drew
    /\ program.id \notin gl_deleted

\* C3: the first frame that draws after a successful rebuild writes a
\* time_delta of 0.
ReloadSentinelReset ==
    (frameOut.drew /\ frameOut.sinceRebuild) => frameOut.time_delta = 0

\* C4: a call sets the fields it specifies and leaves the others as they
\* were (absent in a cell never initialised): update_player_state both
\* fields, play and stop the paused field only; nothing else writes the cell.
MergeLaw ==
    [][LET old == CellContent
           new == PLAYER_STATE_STORAGE'[1]
       IN IF callPc \in {"ups_merge", "ups_init"} /\ callPc' = "idle"
          THEN /\ PLAYER_STATE_STORAGE' # Unset
               /\ new.mouse = (IF callArg[1].mouse # None THEN callArg[1].mouse
                               ELSE old.mouse)
               /\ new.paused = (IF callArg[1].paused # None THEN callArg[1].paused
                                ELSE old.paused)
          ELSE IF callPc \in {"sp_write", "sp_init"} /\ callPc' = "idle"
          THEN /\ PLAYER_STATE_STORAGE' # Unset
               /\ new.paused = Some(callArg[1])
               /\ new.mouse = old.mouse
          ELSE PLAYER_STATE_STORAGE' = PLAYER_STATE_STORAGE]_vars

\* C4 witness: an update that specifies only paused is about to be merged
\* into a cell that holds the second pointer and the other paused value
MergeOverSetFields ==
    /\ callPc = "ups_merge"
    /\ callArg[1] = [mouse |-> None, paused |-> Some(TRUE)]
    /\ PLAYER_STATE_STORAGE = Some([mouse |-> Some(MouseB), paused |-> Some(FALSE)])

\* C5 (amended): while the paused field of the cell is true, a frame whose
\* try_lock gets the cell, or whose cached state is paused already, leaves
\* frame and last_time as they were.
PauseFreezesTime ==
    [][(CellPaused /\ PLAYER_STATE_STORAGE' = PLAYER_STATE_STORAGE
        /\ (playerLock = Free \/ IsPaused(player_state)))
       => (last_time' = last_time /\ frame' = frame)]_vars

\* C5 as stated: while the paused field of the cell is true, no frame that
\* was invoked with the field true changes frame or last_time
PauseFreezesEveryFrame ==
    [][(/\ CellPaused
        /\ PLAYER_STATE_STORAGE' = PLAYER_STATE_STORAGE
        /\ framePc # "idle" => frameOut.pausedAtEntry)
       => (last_time' = last_time /\ frame' = frame)]_vars

\* C5 witness: a frame has returned at the pause gate after an earlier frame
\* drew, and the clock still shows the earlier frame
PausedFrameAfterDraw ==
    /\ CellPaused
    /\ frameOut.ret # None
    /\ frameOut.locked
    /\ ~frameOut.drew
    /\ ~frameOut.lost
    /\ frame = 1
    /\ last_time = 1
    /\ now = 3

\* C6: between frames and between calls, a slot whose text was not the source
\* of the latest build attempt has its reload still requested.
NoReloadRequestLost ==
    (/\ framePc = "idle"
     /\ callPc = "idle"
     /\ FRAGMENT_SHADER_STORAGE # Unset
     /\ FRAGMENT_SHADER_STORAGE[1] # fragment_shader)
    => RELOAD_FRAGMENT_SHADER

\* C7 (amended): the flag becomes true only by the store that ends a
\* set_fragment_shader call, after that call wrote the slot, and becomes
\* false only by the store of a frame that made a build attempt.
ShaderSlotFlag ==
    [][/\ (RELOAD_FRAGMENT_SHADER /\ ~RELOAD_FRAGMENT_SHADER')
          => (framePc = "clear" /\ frameOut.attempts = 1 /\ framePc' = "snapshot")
       /\ (~RELOAD_FRAGMENT_SHADER /\ RELOAD_FRAGMENT_SHADER')
          => /\ callPc = "sfs_store"
             /\ callPc' = "idle"
             /\ FRAGMENT_SHADER_STORAGE = Some(prepare_shader(callArg[1]))]_vars

\* C7 as stated: between frames and between calls the flag is true exactly
\* when the slot differs from the source of the live program, and it becomes
\* false only in a frame that made a build attempt
ShaderSlotFlagTracksDifference ==
    [][/\ (framePc' = "idle" /\ callPc' = "idle")
          => (RELOAD_FRAGMENT_SHADER' <=> (SlotContent' # program'.frag))
       /\ (RELOAD_FRAGMENT_SHADER /\ ~RELOAD_FRAGMENT_SHADER')
          => (framePc = "clear" /\ frameOut.attempts = 1)]_vars

\* C7 witness: a frame made a build attempt that failed and cleared the flag
FlagClearedAfterAttempt ==
    /\ framePc = "idle"
    /\ callPc = "idle"
    /\ frameOut.ret # None
    /\ frameOut.attempts = 1
    /\ frameOut.errors = 1
    /\ ~RELOAD_FRAGMENT_SHADER
    /\ SlotContent # program.frag

\* C8: at most one program the loop created has not been deleted.
SingleLiveProgram == Cardinality(gl_created \ gl_deleted) <= 1

\* C9: a frame invocation in progress can always take its next step.
LoopNeverBlocks == framePc # "idle" => ENABLED Frame

\* C10: a frame that gets the lock uses the content of the cell, one that
\* does not (or finds the cell unset) uses the state cached by the frame
\* before; either way it returns, and that state decides the pause gate and
\* is the source of the mouse uniform.
SnapshotFallsBackToCache ==
    [][(framePc = "snapshot" /\ framePc' # "snapshot")
       => /\ player_state' = (IF PLAYER_STATE_STORAGE # Unset /\ playerLock = Free
                              THEN PLAYER_STATE_STORAGE[1] ELSE player_state)
          /\ frameOut'.ret = Some(TRUE)
          /\ frameOut'.drew <=> (player_state'.paused # Some(TRUE))
          /\ frameOut'.drew => frameOut'.mouse = player_state'.mouse]_vars

\* C10 witness: a frame has drawn with a cached state, set by an earlier
\* frame, while a caller held the lock of a cell that holds something else
DrawnFromCache ==
    /\ frameOut.ret # None
    /\ frameOut.drew
    /\ ~frameOut.locked
    /\ playerLock = Caller
    /\ player_state # DefaultPlayerState
    /\ player_state # CellContent
    /\ frameOut.mouse = Some(MouseA)

\* C11: a build attempt that fails adds exactly one error report and is
\* followed by the store that clears the reload-requested flag; a frame that
\* finds the flag clear and is not forced by a restore makes no attempt; no
\* step other than a build attempt adds a report; and only the flag store of
\* set_fragment_shader sets the flag.  So a frame makes at most one attempt
\* and reports at most once, and after a failure nothing is tried again
\* until set_fragment_shader stores the flag or a restore forces a rebuild.
OneReportNoRetry ==
    [][/\ (framePc = "get_shader" /\ framePc' # "get_shader")
          => /\ framePc' = "clear"
             /\ frameOut'.attempts = frameOut.attempts + 1
             /\ frameOut'.errors = frameOut.errors + (IF frameOut'.rebuilt THEN 0 ELSE 1)
             /\ frameOut'.errors <= 1
       /\ (framePc = "clear" /\ framePc' # "clear")
          => /\ ~RELOAD_FRAGMENT_SHADER'
             /\ framePc' = "snapshot"
       /\ (/\ framePc = "idle"
           /\ now' # now
           /\ ~RELOAD_FRAGMENT_SHADER
           /\ ~(~LOST_WEBGL2_CONTEXT /\ reload_webgl2_context))
          => /\ framePc' \in {"idle", "snapshot"}
             /\ frameOut'.attempts = 0
             /\ frameOut'.errors = 0
       /\ (framePc \in {"clear", "snapshot"})
          => /\ frameOut'.errors = frameOut.errors
             /\ frameOut'.attempts = frameOut.attempts
       /\ (~RELOAD_FRAGMENT_SHADER /\ RELOAD_FRAGMENT_SHADER')
          => (callPc = "sfs_store" /\ callPc' = "idle")]_vars

\* C11 witness: a frame has run to its end without an attempt and without a
\* report while the slot still holds the text whose build failed earlier
FailedShaderNotRetried ==
    /\ framePc = "idle"
    /\ frameOut.ret # None
    /\ ~frameOut.lost
    /\ frameOut.attempts = 0
    /\ frameOut.errors = 0
    /\ ~RELOAD_FRAGMENT_SHADER
    /\ callPc = "idle"
    /\ FRAGMENT_SHADER_STORAGE # Unset
    /\ fragment_shader = SlotContent
    /\ ~ValidGLSL(fragment_shader)

\* C13: whatever a frame invocation found (context lost, restore pending,
\* paused, a failed or a successful rebuild), the value it returned is true.
FrameAlwaysContinues == frameOut.ret # None => frameOut.ret = Some(TRUE)

\* C13 witness: a frame that found the context lost has returned
LostFrameReturned ==
    /\ framePc = "idle"
    /\ frameOut.ret # None
    /\ frameOut.lost
    /\ LOST_WEBGL2_CONTEXT
    /\ reload_webgl2_context

MalformedPayloadRejected ==
    [][UpdatePlayerStateBegin(JsJunk)
       => /\ callOut' = [errors |-> 1]
          /\ callPc' = "idle"
          /\ callArg' = callArg
          /\ UNCHANGED <<statics, LOST_WEBGL2_CONTEXT, loopVars>>]_vars

\* C15 witness: the last call ended with one report and touched nothing,
\* while the cell holds what an earlier call put there
MalformedPayloadAfterUpdate ==
    /\ callPc = "idle"
    /\ callOut = [errors |-> 1]
    /\ PLAYER_STATE_STORAGE = Some([mouse |-> Some(MouseA), paused |-> Some(TRUE)])

\* C16: a frame whose cached player state, as refreshed on lines 258-263,
\* has paused = true writes no uniform, draws nothing, leaves last_time and
\* frame alone and returns true; and before that gate, whatever the pause
\* state, a frame that finds the context lost frees the program and marks
\* the rebuild pending, and one that finds it present enters the reload
\* block exactly when a rebuild is pending or the reload flag is set.
PauseGating ==
    [][/\ (framePc = "snapshot" /\ framePc' = "idle" /\ player_state'.paused = Some(TRUE))
          => /\ ~frameOut'.drew
             /\ frameOut'.locs = {}
             /\ frameOut'.ret = Some(TRUE)
             /\ UNCHANGED <<last_time, frame, gl_current>>
       /\ (framePc = "snapshot" /\ framePc' = "idle" /\ player_state'.paused # Some(TRUE))
          => frameOut'.drew
       /\ (framePc = "idle" /\ now' # now /\ LOST_WEBGL2_CONTEXT)
          => /\ reload_webgl2_context'
             /\ ~frameOut'.drew
             /\ frameOut'.locs = {}
             /\ frameOut'.ret = Some(TRUE)
             /\ gl_deleted' = (IF reload_webgl2_context THEN gl_deleted
                               ELSE gl_deleted \cup {program.id})
       /\ (framePc = "idle" /\ now' # now /\ ~LOST_WEBGL2_CONTEXT)
          => /\ frameOut'.forced = reload_webgl2_context
             /\ framePc' = (IF reload_webgl2_context \/ RELOAD_FRAGMENT_SHADER
                            THEN "get_shader" ELSE "snapshot")]_vars

\* C16 witness: a frame of a paused player has rebuilt the program on a
\* forced reload and then returned at the gate without drawing
PausedFrameRebuilt ==
    /\ framePc = "idle"
    /\ frameOut.ret = Some(TRUE)
    /\ frameOut.forced
    /\ frameOut.rebuilt
    /\ ~frameOut.drew
    /\ player_state.paused = Some(TRUE)
    /\ CellPaused

\* C17: a frame that writes uniforms and draws does so with a program that
\* has not been deleted.
NoUseOfDeletedProgram == frameOut.drew => frameOut.prog \notin gl_deleted

\* C18: a frame invoked with the context present, after a context-lost
\* notification that no forced rebuild has answered yet, performs a forced
\* rebuild, whether or not an earlier frame saw the flag raised.
EveryLossRebuilt ==
    [][(framePc = "idle" /\ now' # now /\ loss_pending /\ ~LOST_WEBGL2_CONTEXT)
       => (frameOut'.forced /\ framePc' = "get_shader")]_vars

ReloadCompilesSlotContent ==
    [][(framePc = "get_shader" /\ framePc' = "clear")
       => /\ fragment_shader' = (IF FRAGMENT_SHADER_STORAGE = Unset
                                 THEN <<"preamble", "default", "main">>
                                 ELSE FRAGMENT_SHADER_STORAGE[1])
          /\ frameOut'.attempts = 1
          /\ frameOut'.rebuilt => program'.frag = fragment_shader'
          /\ frameOut.forced \/ RELOAD_FRAGMENT_SHADER]_vars

\* C20 witness: a rebuild forced by a restore has compiled the text that
\* set_fragment_shader put into the slot
ForcedRebuildOfSlotText ==
    /\ framePc = "clear"
    /\ frameOut.forced
    /\ frameOut.rebuilt
    /\ FRAGMENT_SHADER_STORAGE = Some(prepare_shader("good"))
    /\ program.frag = <<"preamble", "good", "main">>
    /\ program.id \notin gl_deleted

====
